---- MODULE Spec2Model ----
(***************************************************************************)
(* Model of utils/excel_splitter.py: ExcelSplitter.run, _process_row,      *)
(* _ensure_group_writer and _finalize.  One run of the splitter over one   *)
(* input workbook; the group manager, xlsxwriter and openpyxl are the      *)
(* environment and may raise at every call the code makes to them.         *)
(* Spec is that run.  SpecLoader is one call of                            *)
(* HandlerLoader.load_handlers of utils/handler_loader.py over a tree of   *)
(* handler directories.                                                    *)
(***************************************************************************)
EXTENDS Integers, Sequences, FiniteSets, TLC

\* ------------------------------------------------------------------ bounds
MaxRows == 3

\* ------------------------------------------------------- value universes
None == "<None>"
Cities == {"Paris", "Lagos"}
\* what openpyxl hands out for the city cell: a city, or None for an empty cell
CellValues == Cities \cup {None}
Groups == {"EU", "VIP"}
\* a data row is a tuple; index 1 of the Python tuple is element 2 here
RowShapes == {<<"id">>} \cup {<<"id", c>> : c \in CellValues}
Messages == {"", "error"}
NoSuchFile == "No such file or directory"

RECURSIVE SeqsUpTo(_)
SeqsUpTo(n) ==
    IF n = 0 THEN {<<>>}
    ELSE LET S == SeqsUpTo(n - 1)
         IN  S \cup {Append(s, r) : s \in {t \in S : Len(t) = n - 1}, r \in RowShapes}

EmptyDict == [g \in {} |-> 0]
NoException == [src |-> "none", msg |-> ""]

VARIABLES
    file_exists,      \* whether input_path names a readable workbook
    initialized,      \* group_manager._ensure_initialized() has completed
    rows,             \* the data rows of the input (min_row=2 onwards)
    pc,               \* position of the run coroutine
    pos,              \* rows handed out by ws.iter_rows so far
    pending,          \* groups of the current row not yet iterated by `for g in groups`
    cur_g,            \* loop variable g of _process_row
    writers,          \* self.writers: group id -> workbook (index into books)
    wkeys,            \* insertion order of self.writers
    sheets,           \* self.sheets: group id -> worksheet (index into books)
    row_counts,       \* self.row_counts
    matched_rows,     \* self.matched_rows
    unmatched_cities, \* self.unmatched_cities
    processed_rows,   \* local of run
    books,            \* every xlsxwriter.Workbook constructed, with its sheet's writes
    fin_i,            \* entries of self.writers.items() already visited by _finalize
    output_files,     \* local of _finalize
    result,           \* the dict returned by run
    exc,              \* the exception caught by run, if any
    resolved          \* history: what get_groups_for_city returned, per row

\* utils/handler_loader.py: one call of HandlerLoader.load_handlers
VARIABLES
    base_exists,      \* self.base_dir.exists()
    tree,             \* base_dir (element 1) and its handler_dirs: existence and *.py files
    l_pc,             \* position of load_handlers
    scan_dirs,        \* the list built by _get_scan_directories (indices into tree)
    l_d,              \* directories of scan_dirs already left
    py_files,         \* py_files of _load_handlers_from_dir (indices into the directory)
    l_f,              \* files of py_files already handled
    load_result,      \* the LoadResult
    sub_routers,      \* routers the dispatcher has included, as <<directory, file>>
    unreadable,       \* history: directories whose glob raised
    critical,         \* history: the except branch of load_handlers ran
    l_return          \* what load_handlers returned

splitterVars == <<file_exists, initialized, rows, pc, pos, pending, cur_g, writers, wkeys,
                  sheets, row_counts, matched_rows, unmatched_cities, processed_rows,
                  books, fin_i, output_files, result, exc, resolved>>

loaderVars == <<base_exists, tree, l_pc, scan_dirs, l_d, py_files, l_f, load_result,
                sub_routers, unreadable, critical, l_return>>

vars == <<splitterVars, loaderVars>>

\* ----------------------------------------------------------------- helpers
\* Python truthiness of a cell value
Truthy(c) == c # None /\ c # ""

\* city = row[1] if len(row) > 1 else None
CityOf(row) == IF Len(row) > 1 THEN row[2] ELSE None

\* dict assignment d[k] = v
DictSet(d, k, v) == (k :> v) @@ d

\* list(set): each element once, in some order
RECURSIVE ListOf(_)
ListOf(S) ==
    IF S = {} THEN <<>>
    ELSE LET x == CHOOSE y \in S : TRUE IN <<x>> \o ListOf(S \ {x})

\* variant: the except branch drops the message
FailureResultNoMessage(msg) ==
    [success |-> FALSE, error |-> "", total_rows |-> 0, output_files |-> [g \in {} |-> 0]]

\* the except branch of run
FailureResult(msg) ==
    [success |-> FALSE, error |-> msg, total_rows |-> 0, output_files |-> EmptyDict]

\* variant: stats reports row counts instead of the cursors
SuccessResultStatsAsCounts(n, files) ==
    [success |-> TRUE,
     total_rows |-> n,
     matched_rows |-> matched_rows,
     output_files |-> files,
     unmatched_cities |-> ListOf(unmatched_cities),
     stats |-> [g \in DOMAIN row_counts |-> row_counts[g] - 1]]

\* variant: output_files is built from every writer, closed or not
SuccessResultEveryWriter(n, files) ==
    [success |-> TRUE,
     total_rows |-> n,
     matched_rows |-> matched_rows,
     output_files |-> [g \in DOMAIN row_counts |->
                          [book |-> writers[g], row_count |-> row_counts[g] - 1]],
     unmatched_cities |-> ListOf(unmatched_cities),
     stats |-> row_counts]

\* the return statement of _finalize
SuccessResult(n, files) ==
    [success |-> TRUE,
     total_rows |-> n,
     matched_rows |-> matched_rows,
     output_files |-> files,
     unmatched_cities |-> ListOf(unmatched_cities),
     stats |-> row_counts]

\* no load_handlers call is in progress
LoaderIdle ==
    /\ base_exists = FALSE
    /\ tree = <<>>
    /\ l_pc = "idle"
    /\ scan_dirs = <<>>
    /\ l_d = 0
    /\ py_files = <<>>
    /\ l_f = 0
    /\ load_result = [loaded |-> 0, failed |-> 0, skipped |-> 0, scanned |-> 0,
                      errors |-> <<>>]
    /\ sub_routers = <<>>
    /\ unreadable = {}
    /\ critical = FALSE
    /\ l_return = EmptyDict

\* variant: run starts at load_workbook, the group manager is never awaited
RunEntryWithoutInitialize == "open"

\* the first await of run (line 94)
RunEntry == "init"

Init ==
    /\ file_exists \in BOOLEAN
    /\ initialized = FALSE
    /\ rows \in (IF file_exists THEN SeqsUpTo(MaxRows) ELSE {<<>>})
    /\ pc = RunEntry
    /\ pos = 0
    /\ pending = {}
    /\ cur_g = None
    /\ writers = EmptyDict
    /\ wkeys = <<>>
    /\ sheets = EmptyDict
    /\ row_counts = EmptyDict
    /\ matched_rows = 0
    /\ unmatched_cities = {}
    /\ processed_rows = 0
    /\ books = <<>>
    /\ fin_i = 0
    /\ output_files = EmptyDict
    /\ result = FailureResult("")
    /\ exc = NoException
    /\ resolved = <<>>
    /\ LoaderIdle

\* variant: the except branch closes every workbook before it returns
WorkbooksClosedAfterError(bs) ==
    [i \in DOMAIN bs |-> [bs[i] EXCEPT !.close_calls = @ + 1, !.saved = TRUE]]

\* the except branch of run (lines 112-119) does not touch self.writers:
\* the workbooks stay as the error left them
WorkbooksAfterError(bs) == bs

\* run's `except Exception as e`: build the failure dict and return
Raise(src, msg) ==
    /\ exc' = [src |-> src, msg |-> msg]
    /\ result' = FailureResult(msg)
    /\ pc' = "done"

\* await group_manager._ensure_initialized()
EnsureInitialized ==
    /\ pc = "init"
    /\ initialized' = TRUE
    /\ pc' = "open"
    /\ UNCHANGED <<file_exists, rows, pos, pending, cur_g, writers, wkeys, sheets,
                   row_counts, matched_rows, unmatched_cities, processed_rows,
                   books, fin_i, output_files, result, exc, resolved>>
    /\ UNCHANGED loaderVars

EnsureInitializedFails ==
    /\ pc = "init"
    /\ \E m \in Messages : Raise("initialize", m)
    /\ UNCHANGED <<file_exists, initialized, rows, pos, pending, cur_g, writers, wkeys, sheets,
                   row_counts, matched_rows, unmatched_cities, processed_rows,
                   books, fin_i, output_files, resolved>>
    /\ UNCHANGED loaderVars

\* wb = load_workbook(self.input_path, read_only=True); ws = wb.active; processed_rows = 0
LoadWorkbook ==
    /\ pc = "open"
    /\ file_exists
    /\ processed_rows' = 0
    /\ pc' = "iter"
    /\ UNCHANGED <<file_exists, initialized, rows, pos, pending, cur_g, writers, wkeys, sheets,
                   row_counts, matched_rows, unmatched_cities,
                   books, fin_i, output_files, result, exc, resolved>>
    /\ UNCHANGED loaderVars

LoadWorkbookFails ==
    /\ pc = "open"
    /\ ~file_exists
    /\ Raise("open", NoSuchFile)
    /\ UNCHANGED <<file_exists, initialized, rows, pos, pending, cur_g, writers, wkeys, sheets,
                   row_counts, matched_rows, unmatched_cities, processed_rows,
                   books, fin_i, output_files, resolved>>
    /\ UNCHANGED loaderVars

UnchangedInput == UNCHANGED <<file_exists, initialized, rows>>
UnchangedPool == UNCHANGED <<writers, wkeys, sheets, row_counts, books>>
UnchangedFinalizer == UNCHANGED <<fin_i, output_files>>

\* variant: `if not groups`
IsUnmatchedAnyKey(groups, city) == groups = {}

\* `if not groups and city` (line 76)
IsUnmatched(groups, city) == groups = {} /\ Truthy(city)

\* variant: the count is left out
CountRowNever(n) == n

\* processed_rows += 1 (line 104)
CountRow(n) == n + 1

\* the for statement of run: the next row, or exhaustion, wb.close() and the
\* call of _finalize
IterRows ==
    /\ pc = "iter"
    /\ IF pos < Len(rows)
       THEN /\ pos' = pos + 1
            /\ pc' = "lookup"
       ELSE /\ pos' = pos
            /\ pc' = "finalize"
    /\ UnchangedInput /\ UnchangedPool /\ UnchangedFinalizer
    /\ UNCHANGED <<pending, cur_g, matched_rows, unmatched_cities, processed_rows,
                   result, exc, resolved>>
    /\ UNCHANGED loaderVars

\* variant: run goes on to the next row without waiting for the writes
RowDoneAtOnce(left) ==
    /\ processed_rows' = processed_rows + 1
    /\ pc' = "iter"

\* the row is over: control returns to run, which counts it
RowDone(left) ==
    IF left = {}
    THEN /\ processed_rows' = CountRow(processed_rows)
         /\ pc' = "iter"
    ELSE /\ processed_rows' = processed_rows
         /\ pc' = "dispatch"

\* _process_row lines 73-77: the key, the lookup, the unmatched record
GetGroupsForCity ==
    /\ pc = "lookup"
    /\ LET city == CityOf(rows[pos])
       IN  \E groups \in SUBSET Groups :
              /\ resolved' = Append(resolved, groups)
              /\ unmatched_cities' =
                    IF IsUnmatched(groups, city)
                    THEN unmatched_cities \cup {city}
                    ELSE unmatched_cities
              /\ pending' = groups
              /\ RowDone(groups)
    /\ UnchangedInput /\ UnchangedPool /\ UnchangedFinalizer
    /\ UNCHANGED <<pos, cur_g, matched_rows, result, exc>>
    /\ UNCHANGED loaderVars

GetGroupsForCityFails ==
    /\ pc = "lookup"
    /\ \E m \in Messages : Raise("lookup", m)
    /\ books' = WorkbooksAfterError(books)
    /\ UnchangedInput /\ UnchangedFinalizer
    /\ UNCHANGED <<pos, pending, cur_g, writers, wkeys, sheets, row_counts,
                   matched_rows, unmatched_cities, processed_rows, resolved>>
    /\ UNCHANGED loaderVars

\* variant: the early return is left out
HasWriterNever(group_id) == FALSE

\* `if group_id in self.writers` (line 40)
HasWriter(group_id) == group_id \in DOMAIN writers

\* variant: the cursor starts on the header line
FirstRowIndexOnHeader == 1 - 1

\* self.row_counts[group_id] = 1 (line 64)
FirstRowIndex == 1

HeaderCell == [at |-> 0, kind |-> "header", row |-> 0]

\* xlsxwriter.Workbook(...), add_worksheet, ws.write_row(0, 0, self.headers)
NewWorkbook(group_id) ==
    [gid |-> group_id, cells |-> <<HeaderCell>>, close_calls |-> 0, saved |-> FALSE]

\* a workbook whose construction got as far as Workbook(...) before raising
BareWorkbook(group_id) ==
    [gid |-> group_id, cells |-> <<>>, close_calls |-> 0, saved |-> FALSE]

\* `for g in groups: await self._ensure_group_writer(g)`, the target exists
EnsureGroupWriterExisting ==
    /\ pc = "dispatch"
    /\ \E g \in pending :
          /\ HasWriter(g)
          /\ cur_g' = g
    /\ pc' = "write"
    /\ UnchangedInput /\ UnchangedPool /\ UnchangedFinalizer
    /\ UNCHANGED <<pos, pending, matched_rows, unmatched_cities, processed_rows,
                   result, exc, resolved>>
    /\ UNCHANGED loaderVars

\* _ensure_group_writer lines 44-64 for a group without a target
EnsureGroupWriterCreates ==
    /\ pc = "dispatch"
    /\ \E g \in pending :
          /\ ~HasWriter(g)
          /\ cur_g' = g
          /\ books' = Append(books, NewWorkbook(g))
          /\ writers' = DictSet(writers, g, Len(books) + 1)
          /\ wkeys' = IF g \in DOMAIN writers THEN wkeys ELSE Append(wkeys, g)
          /\ sheets' = DictSet(sheets, g, Len(books) + 1)
          /\ row_counts' = DictSet(row_counts, g, FirstRowIndex)
    /\ pc' = "write"
    /\ UnchangedInput /\ UnchangedFinalizer
    /\ UNCHANGED <<pos, pending, matched_rows, unmatched_cities, processed_rows,
                   result, exc, resolved>>
    /\ UNCHANGED loaderVars

\* a call of lines 44-60 raises: before Workbook(...) (get_group_info,
\* generate_output_filename, mkdir) or after it (add_worksheet, write_row);
\* nothing is registered in self.writers
EnsureGroupWriterFails ==
    /\ pc = "dispatch"
    /\ \E g \in pending :
          /\ ~HasWriter(g)
          /\ cur_g' = g
          /\ \E constructed \in BOOLEAN :
                books' = WorkbooksAfterError(
                            IF constructed THEN Append(books, BareWorkbook(g)) ELSE books)
    /\ \E m \in Messages : Raise("ensure", m)
    /\ UnchangedInput /\ UnchangedFinalizer
    /\ UNCHANGED <<pos, pending, writers, wkeys, sheets, row_counts, matched_rows,
                   unmatched_cities, processed_rows, resolved>>
    /\ UNCHANGED loaderVars

\* variant: per-row policy, only the first destination of a row counts
CountMatchPerRow(n) == IF pending = resolved[pos] THEN n + 1 ELSE n

\* self.matched_rows += 1 (line 85)
CountMatch(n) == n + 1

\* variant: the cursor is not advanced
AdvanceCursorNever(cursor) == cursor

\* self.row_counts[g] += 1 (line 84)
AdvanceCursor(cursor) == cursor + 1

\* _process_row lines 81-85
WriteRow ==
    /\ pc = "write"
    /\ LET ws == sheets[cur_g]
           row_index == row_counts[cur_g]
       IN  /\ books' = [books EXCEPT ![ws].cells =
                           Append(@, [at |-> row_index, kind |-> "data", row |-> pos])]
           /\ row_counts' = [row_counts EXCEPT ![cur_g] = AdvanceCursor(@)]
           /\ matched_rows' = CountMatch(matched_rows)
    /\ pending' = pending \ {cur_g}
    \* g is a local of _process_row: it is gone when the loop ends
    /\ cur_g' = IF pending \ {cur_g} = {} THEN None ELSE cur_g
    /\ RowDone(pending \ {cur_g})
    /\ UnchangedInput /\ UnchangedFinalizer
    /\ UNCHANGED <<pos, writers, wkeys, sheets, unmatched_cities,
                   result, exc, resolved>>
    /\ UNCHANGED loaderVars

\* ws.write_row(row_index, 0, row) raises
WriteRowFails ==
    /\ pc = "write"
    /\ \E m \in Messages : Raise("write", m)
    /\ books' = WorkbooksAfterError(books)
    /\ UnchangedInput /\ UnchangedFinalizer
    /\ UNCHANGED <<pos, pending, cur_g, writers, wkeys, sheets, row_counts,
                   matched_rows, unmatched_cities, processed_rows, resolved>>
    /\ UNCHANGED loaderVars

\* variant: the raw cursor is reported
RowCountOfCursor(cursor) == cursor

\* "row_count": self.row_counts[group_id] - 1 (line 135)
RowCountOf(cursor) == cursor - 1

\* variant: the first close error ends the loop
AfterCloseErrorBreak(i) == Len(wkeys)

\* variant: a failed close is tried again
AfterCloseErrorRetry(i) == i

\* the except branch inside the loop of _finalize: log, go on with the next item
AfterCloseError(i) == i + 1

\* _finalize lines 127-138: wb.close() succeeds, the descriptor is recorded
CloseWorkbook ==
    /\ pc = "finalize"
    /\ fin_i < Len(wkeys)
    /\ LET group_id == wkeys[fin_i + 1]
           wb == writers[group_id]
       IN  /\ books' = [books EXCEPT ![wb].close_calls = @ + 1, ![wb].saved = TRUE]
           /\ output_files' = DictSet(output_files, group_id,
                                 [book |-> wb, row_count |-> RowCountOf(row_counts[group_id])])
    /\ fin_i' = fin_i + 1
    /\ UnchangedInput
    /\ UNCHANGED <<pc, pos, pending, cur_g, writers, wkeys, sheets, row_counts,
                   matched_rows, unmatched_cities, processed_rows, result, exc, resolved>>
    /\ UNCHANGED loaderVars

\* _finalize lines 129, 140-141: wb.close() raises, the error is logged
CloseWorkbookFails ==
    /\ pc = "finalize"
    /\ fin_i < Len(wkeys)
    /\ LET wb == writers[wkeys[fin_i + 1]]
       IN  books' = [books EXCEPT ![wb].close_calls = @ + 1]
    /\ fin_i' = AfterCloseError(fin_i)
    /\ UnchangedInput
    /\ UNCHANGED <<pc, pos, pending, cur_g, writers, wkeys, sheets, row_counts,
                   matched_rows, unmatched_cities, processed_rows, output_files,
                   result, exc, resolved>>
    /\ UNCHANGED loaderVars

\* _finalize lines 143-150
ReturnSummary ==
    /\ pc = "finalize"
    /\ fin_i >= Len(wkeys)
    /\ result' = SuccessResult(processed_rows, output_files)
    /\ pc' = "done"
    /\ UnchangedInput /\ UnchangedPool /\ UnchangedFinalizer
    /\ UNCHANGED <<pos, pending, cur_g, matched_rows, unmatched_cities,
                   processed_rows, exc, resolved>>
    /\ UNCHANGED loaderVars

\* ------------------------------------------------- vocabulary of the claims
\* the row has a value at the partition position and it is not empty
KeyPresent(row) == Len(row) >= 2 /\ row[2] \in Cities

\* data rows written to a workbook's sheet
DataCells(b) == {k \in 1..Len(b.cells) : b.cells[k].kind = "data"}

\* workbooks constructed for a group
BooksOf(g) == {i \in 1..Len(books) : books[i].gid = g}

\* the group received at least one row
Received(g) == \E i \in BooksOf(g) : DataCells(books[i]) # {}

\* rows looked up so far whose resolved group set contains g
RowsResolvingTo(g) == {i \in 1..Len(resolved) : g \in resolved[i]}

RECURSIVE WritesUpTo(_)
WritesUpTo(i) ==
    IF i = 0 THEN 0 ELSE Cardinality(DataCells(books[i])) + WritesUpTo(i - 1)

\* a close was attempted on the workbook and raised
CloseFailed(i) == books[i].close_calls >= 1 /\ ~books[i].saved

Finished == pc = "done"
Succeeded == pc = "done" /\ result.success

\* ------------------------------------------------------------------ C1
\* C1 as stated: whatever the input, the returned total_rows is the number
\* of data rows of the input.
C1_TotalRowsForAllInputs ==
    (Finished /\ file_exists) => result.total_rows = Len(rows)

\* C1 (amended): a success result has total_rows equal to the number of data
\* rows; during the run the counter equals the number of rows whose dispatch
\* has completed, one per row whether matched, unmatched or without key; a
\* failure result reports 0.
C1_TotalRows ==
    /\ Succeeded => result.total_rows = Len(rows)
    /\ (Finished /\ ~result.success) => result.total_rows = 0
    /\ pc \in {"lookup", "dispatch", "write"} => processed_rows = pos - 1
    /\ pc \in {"iter", "finalize"} => processed_rows = pos

C1_Witness ==
    /\ Succeeded
    /\ result.total_rows = 3
    /\ \E i, j, k \in 1..Len(rows) :
          /\ ~KeyPresent(rows[i])
          /\ KeyPresent(rows[j]) /\ resolved[j] = {}
          /\ KeyPresent(rows[k]) /\ resolved[k] # {}

\* ------------------------------------------------------------------ C2
\* C2 as stated: in the result of a run every group that received a row has
\* an output_files entry whose row_count is the number of rows resolving to it.
C2_RowCountForEveryGroup ==
    Finished =>
        \A g \in Groups :
            Received(g) =>
                /\ g \in DOMAIN result.output_files
                /\ result.output_files[g].row_count = Cardinality(RowsResolvingTo(g))

\* C2 (amended): in a success result, every group that received a row and
\* whose workbook closed without error has an output_files entry, and every
\* entry's row_count is the number of input rows whose resolved group set
\* contains the group.
C2_RowCounts ==
    Succeeded =>
        /\ \A g \in Groups :
              (Received(g) /\ ~CloseFailed(writers[g])) =>
                  g \in DOMAIN result.output_files
        /\ \A g \in DOMAIN result.output_files :
              result.output_files[g].row_count = Cardinality(RowsResolvingTo(g))

C2_Witness ==
    /\ Succeeded
    /\ DOMAIN result.output_files = {"EU", "VIP"}
    /\ result.output_files["EU"].row_count = 2
    /\ result.output_files["VIP"].row_count = 1
    /\ \E i \in 1..Len(resolved) : resolved[i] = {"EU", "VIP"}

\* ------------------------------------------------------------------ C3
\* C3: the unmatched set holds exactly the present keys for which a lookup
\* returned no group, and the reported list names each of them once.
C3_UnmatchedKeys ==
    /\ unmatched_cities =
          {rows[i][2] : i \in {j \in 1..Len(resolved) :
                                  KeyPresent(rows[j]) /\ resolved[j] = {}}}
    /\ Succeeded =>
          /\ {result.unmatched_cities[k] : k \in 1..Len(result.unmatched_cities)}
                = unmatched_cities
          /\ Len(result.unmatched_cities) = Cardinality(unmatched_cities)

C3_Witness ==
    /\ Succeeded
    /\ Len(rows) = 3
    /\ rows[1] = rows[2] /\ KeyPresent(rows[1])
    /\ resolved[1] = {} /\ resolved[2] = {}
    /\ KeyPresent(rows[3]) /\ resolved[3] # {}
    /\ Len(result.unmatched_cities) = 1

\* ------------------------------------------------------------------ C4
\* C4: a row with an absent or empty key is in no group's output and not in
\* the unmatched set, and is counted in total_rows.
C4_KeylessRowSkipped ==
    /\ \A i \in 1..Len(books) :
          \A k \in DataCells(books[i]) : KeyPresent(rows[books[i].cells[k].row])
    /\ unmatched_cities \subseteq Cities
    /\ Succeeded => result.total_rows = Len(rows)

\* ------------------------------------------------------------------ C5
\* C5: at most one workbook is ever constructed per group, and a call of
\* _ensure_group_writer for a group that has a target changes nothing of the
\* pool: no workbook, no header, cursor and writer as they were.
C5_EnsureIdempotent ==
    /\ [](\A g \in Groups : Cardinality(BooksOf(g)) <= 1)
    /\ [][(pc = "dispatch" /\ pc' = "write" /\ cur_g' \in DOMAIN writers)
            => (writers' = writers /\ sheets' = sheets
                /\ row_counts' = row_counts /\ books' = books)]_vars

C5_Witness ==
    /\ pc = "write"
    /\ cur_g \in DOMAIN writers
    /\ row_counts[cur_g] = 3
    /\ Cardinality(BooksOf(cur_g)) = 1
    /\ Len(books[writers[cur_g]].cells) = 3

\* ------------------------------------------------------------------ C6
\* C6: the sheet of every target starts with the header, written once at
\* row 0, and everything after it is a data row at a position >= 1.
C6_HeaderOnceFirst ==
    \A g \in DOMAIN writers :
        LET cells == books[sheets[g]].cells
        IN  /\ Len(cells) >= 1
            /\ cells[1].kind = "header" /\ cells[1].at = 0
            /\ \A k \in 2..Len(cells) : cells[k].kind = "data" /\ cells[k].at >= 1

C6_Witness ==
    \E g \in DOMAIN writers :
        LET cells == books[sheets[g]].cells
        IN  Len(cells) = 3 /\ cells[1].kind = "header" /\ cells[3].kind = "data"

\* ------------------------------------------------------------------ C7
ScenarioRows == << <<"id", "Paris">>, <<"id", "Lagos">>, <<"id", "Paris">> >>
ScenarioGroups == << {"EU"}, {}, {"EU", "VIP"} >>

\* C7: matched_rows is the number of data rows written over all groups, and
\* the run over Paris->{EU}, Lagos->{}, Paris->{EU,VIP} reports 3.
C7_MatchedPerWrite ==
    /\ matched_rows = WritesUpTo(Len(books))
    /\ (Succeeded /\ rows = ScenarioRows /\ resolved = ScenarioGroups)
          => result.matched_rows = 3

C7_Witness ==
    /\ Succeeded
    /\ rows = ScenarioRows
    /\ resolved = ScenarioGroups
    /\ result.matched_rows = 3
    /\ result.total_rows = 3

\* ------------------------------------------------------------------ C8
\* C8: when load_workbook raises for a missing path, the result is a failure
\* with a non-empty error, total_rows 0 and no output files, and no workbook
\* was constructed.
C8_MissingInput ==
    (Finished /\ ~file_exists /\ exc.src = "open") =>
        /\ result.success = FALSE
        /\ result.error # ""
        /\ result.total_rows = 0
        /\ DOMAIN result.output_files = {}
        /\ books = <<>>
        /\ DOMAIN writers = {}

C8_Witness == Finished /\ ~file_exists /\ exc.src = "open" /\ ~result.success

\* ------------------------------------------------------------------ C9
\* C9: an error creating or writing one group's output does not abort the
\* run: every row is still looked up and the result is a success.
C9_WriterFailureIsolated ==
    (Finished /\ exc.src \in {"ensure", "write"}) =>
        /\ result.success
        /\ Len(resolved) = Len(rows)

\* ------------------------------------------------------------------ C10
\* C10: when a close raises in _finalize, a close is still attempted on every
\* other target and the result is a success.
C10_CloseBestEffort ==
    (Finished /\ \E i \in 1..Len(books) : CloseFailed(i)) =>
        /\ result.success
        /\ \A g \in DOMAIN writers : books[writers[g]].close_calls = 1

C10_Witness ==
    /\ Succeeded
    /\ Len(wkeys) = 2
    /\ CloseFailed(writers[wkeys[1]])
    /\ books[writers[wkeys[2]]].saved

\* ------------------------------------------------------------------ C11
\* C11: a target's cursor is 1 at creation and 1 more per row written; the
\* k-th row of a target is at position k; the reported row_count is the
\* final cursor minus 1.
C11_CursorSteps ==
    /\ \A g \in DOMAIN writers :
          LET cells == books[sheets[g]].cells
          IN  /\ row_counts[g] = 1 + Cardinality(DataCells(books[sheets[g]]))
              /\ \A k \in 2..Len(cells) : cells[k].at = k - 1
    /\ Succeeded =>
          \A g \in DOMAIN result.output_files :
              result.output_files[g].row_count = row_counts[g] - 1

C11_Witness ==
    /\ Succeeded
    /\ \E g \in DOMAIN result.output_files :
          /\ row_counts[g] = 4
          /\ result.output_files[g].row_count = 3
          /\ books[sheets[g]].cells[4].at = 3

\* ------------------------------------------------------------------ C12
\* C12: a failed lookup ends the run: no later row is read, and the result
\* is a failure with a non-empty error, total_rows 0 and no output files,
\* whatever was written before.
C12_LookupFailureFatal ==
    (Finished /\ exc.src = "lookup") =>
        /\ result.success = FALSE
        /\ result.error # ""
        /\ result.total_rows = 0
        /\ DOMAIN result.output_files = {}
        /\ Len(resolved) = pos - 1

\* ------------------------------------------------------------------ C13
\* rows whose lookup returned and whose every destination has been written
Dispatched(i) ==
    \A g \in resolved[i] :
        /\ g \in DOMAIN sheets
        /\ \E k \in DataCells(books[sheets[g]]) : books[sheets[g]].cells[k].row = i

\* C13: a row is read only when every earlier row has been looked up and
\* written to all its groups; nothing of a later row is written before; each
\* target holds its rows in input order.
C13_OneRowAtATime ==
    /\ [](/\ Len(resolved) \in {pos - 1, pos}
          /\ \A i \in 1..Len(resolved) : i < pos => Dispatched(i)
          /\ \A b \in 1..Len(books) :
                \A k, l \in DataCells(books[b]) :
                    /\ books[b].cells[k].row <= pos
                    /\ k < l => books[b].cells[k].row < books[b].cells[l].row)
    /\ [][pos' # pos =>
            /\ pos' = pos + 1
            /\ pending = {}
            /\ \A i \in 1..pos : i <= Len(resolved) /\ Dispatched(i)]_vars

C13_Witness ==
    /\ pc = "lookup"
    /\ pos = 3
    /\ resolved[1] = {"EU", "VIP"}
    /\ resolved[2] = {"EU"}
    /\ Dispatched(1) /\ Dispatched(2)

\* ------------------------------------------------------------------ C14
\* the row has no value at the partition position
KeyAbsent(row) == Len(row) < 2 \/ row[2] = None

\* C14: get_groups_for_city is never called for a row whose key is absent,
\* so no lookup result exists for such a row.
C14_NoLookupWithoutKey ==
    \A i \in 1..Len(resolved) : ~KeyAbsent(rows[i])

\* ------------------------------------------------------------------ C15
\* rows resolving to g, as far as looked up
FirstMatch(g) == CHOOSE i \in RowsResolvingTo(g) : \A j \in RowsResolvingTo(g) : i <= j

\* C15: a workbook exists for a group only from the group's first match on,
\* no close is called before the last row was dispatched, a run that reaches
\* the end of _finalize has called close exactly once on every target, and
\* a workbook on which close was called is never written again nor replaced.
C15_TargetLifecycle ==
    /\ [](/\ \A i \in 1..Len(books) :
                /\ RowsResolvingTo(books[i].gid) # {}
                /\ \A k \in DataCells(books[i]) :
                      books[i].cells[k].row >= FirstMatch(books[i].gid)
                /\ (pc \notin {"dispatch", "write"} /\ exc.src = "none") =>
                      \E k \in DataCells(books[i]) :
                          books[i].cells[k].row = FirstMatch(books[i].gid)
                /\ books[i].close_calls >= 1 =>
                      /\ pc \in {"finalize", "done"}
                      /\ processed_rows = Len(rows)
                      /\ Len(resolved) = Len(rows)
          /\ Succeeded => \A g \in DOMAIN writers : books[writers[g]].close_calls = 1)
    /\ [][\A i \in 1..Len(books) :
             books[i].close_calls >= 1 =>
                /\ Len(books') = Len(books)
                /\ writers' = writers
                /\ books'[i].cells = books[i].cells
                /\ books'[i].close_calls = books[i].close_calls]_vars

C15_Witness ==
    /\ Succeeded
    /\ Len(rows) = 3
    /\ Len(books) = 2
    /\ resolved[1] = {}
    /\ \A i \in 1..2 : books[i].close_calls = 1 /\ DataCells(books[i]) # {}
    /\ \E i \in 1..2 : FirstMatch(books[i].gid) = 3

\* ------------------------------------------------------------------ C16
\* C16: no lookup starts before _ensure_initialized has completed, and when
\* it raises no row is read, no lookup is made and no workbook is created.
C16_InitializeFirst ==
    /\ (pc \in {"lookup", "dispatch", "write"} \/ Len(resolved) > 0 \/ pos > 0)
          => initialized
    /\ exc.src = "initialize" =>
          /\ Finished /\ ~result.success
          /\ pos = 0
          /\ resolved = <<>>
          /\ books = <<>>
          /\ DOMAIN writers = {}

C16_Witness ==
    /\ pc = "lookup"
    /\ pos = 1
    /\ resolved = <<>>
    /\ initialized

\* ------------------------------------------------------------------ C17
\* C17: when an error ends the row loop, run returns the failure result and
\* close has been called on no workbook: every target opened before stays
\* open.
C17_NoCleanupOnError ==
    (Finished /\ exc.src \in {"lookup", "ensure", "write"}) =>
        /\ ~result.success
        /\ \A i \in 1..Len(books) : books[i].close_calls = 0 /\ ~books[i].saved

C17_Witness ==
    /\ Finished
    /\ exc.src = "lookup"
    /\ ~result.success
    /\ Len(books) = 2
    /\ \A i \in 1..2 : DataCells(books[i]) # {} /\ books[i].close_calls = 0

\* ------------------------------------------------------------------ C18
RECURSIVE SumOver(_, _)
SumOver(d, S) ==
    IF S = {} THEN 0
    ELSE LET g == CHOOSE x \in S : TRUE IN (d[g] - 1) + SumOver(d, S \ {g})

\* C18: in a success result stats[g] is the cursor: row_count + 1 for every
\* group of output_files, and the stats less one add up to matched_rows.
C18_StatsAreCursors ==
    Succeeded =>
        /\ \A g \in DOMAIN result.output_files :
              /\ g \in DOMAIN result.stats
              /\ result.stats[g] = result.output_files[g].row_count + 1
        /\ SumOver(result.stats, DOMAIN result.stats) = result.matched_rows

C18_Witness ==
    /\ Succeeded
    /\ DOMAIN result.output_files = {"EU", "VIP"}
    /\ result.stats["EU"] = 3
    /\ result.stats["VIP"] = 2
    /\ result.matched_rows = 3

\* ------------------------------------------------------------------ C19
\* C19: a group whose close raised is absent from output_files of a result
\* that is still a success, and is still in stats and in matched_rows; the
\* groups of output_files are among those of stats, all of them exactly when
\* no close raised.
C19_CloseFailureOmitsGroup ==
    /\ (Finished /\ \E i \in 1..Len(books) : CloseFailed(i)) => result.success
    /\ Succeeded =>
          /\ \A g \in DOMAIN writers :
                CloseFailed(writers[g]) =>
                    /\ g \notin DOMAIN result.output_files
                    /\ g \in DOMAIN result.stats
          /\ result.matched_rows = WritesUpTo(Len(books))
          /\ DOMAIN result.output_files \subseteq DOMAIN result.stats
          /\ (DOMAIN result.output_files = DOMAIN result.stats)
                <=> ~(\E i \in 1..Len(books) : CloseFailed(i))

C19_Witness ==
    /\ Succeeded
    /\ DOMAIN result.stats = {"EU", "VIP"}
    /\ DOMAIN result.output_files = {"VIP"}
    /\ CloseFailed(writers["EU"])
    /\ result.stats["EU"] = 3
    /\ result.matched_rows = 3

Next ==
    \/ EnsureInitialized
    \/ EnsureInitializedFails
    \/ LoadWorkbook
    \/ LoadWorkbookFails
    \/ IterRows
    \/ GetGroupsForCity
    \/ GetGroupsForCityFails
    \/ EnsureGroupWriterExisting
    \/ EnsureGroupWriterCreates
    \/ EnsureGroupWriterFails
    \/ WriteRow
    \/ WriteRowFails
    \/ CloseWorkbook
    \/ CloseWorkbookFails
    \/ ReturnSummary

Spec == Init /\ [][Next]_vars

\* ===================================================== utils/handler_loader.py
MaxFiles == 2

\* what a *.py file of a handler directory is, for _load_single_handler
FileKinds == {"private",         \* its name starts with "_"
              "import_fails",    \* _import_module_safely returns None
              "no_router",       \* the module has no attribute `router`
              "not_router",      \* module.router is not a Router
              "router",          \* module.router is a Router
              "include_raises"}  \* a Router that include_router refuses

RECURSIVE FileListsUpTo(_)
FileListsUpTo(n) ==
    IF n = 0 THEN {<<>>}
    ELSE LET S == FileListsUpTo(n - 1)
         IN  S \cup {Append(l, k) : l \in {t \in S : Len(t) = n - 1}, k \in FileKinds}

\* self.handler_dirs, here one sub-directory beside base_dir itself
HandlerDirs == <<"commands">>

EmptyLoadResult ==
    [loaded |-> 0, failed |-> 0, skipped |-> 0, scanned |-> 0, errors |-> <<>>]

\* LoadResult.to_dict
ToDict(r) ==
    [loaded |-> r.loaded, failed |-> r.failed, skipped |-> r.skipped,
     total_files |-> r.scanned, errors |-> r.errors, loaded_handlers |-> <<>>]

\* py_files = [f for f in py_files if not f.name.startswith("_")]
RECURSIVE PublicFiles(_, _)
PublicFiles(files, k) ==
    IF k > Len(files) THEN <<>>
    ELSE IF files[k] = "private" THEN PublicFiles(files, k + 1)
    ELSE <<k>> \o PublicFiles(files, k + 1)

\* _get_scan_directories: base_dir, then the handler_dirs that exist
RECURSIVE ExistingFrom(_, _)
ExistingFrom(t, k) ==
    IF k > Len(t) THEN <<>>
    ELSE IF t[k].exists THEN <<k>> \o ExistingFrom(t, k + 1)
    ELSE ExistingFrom(t, k + 1)

GetScanDirectories(t) == <<1>> \o ExistingFrom(t, 2)

LoaderInit ==
    /\ base_exists \in BOOLEAN
    /\ tree \in IF base_exists
                THEN {<<[exists |-> TRUE, files |-> fs]>> \o sub :
                         fs \in FileListsUpTo(MaxFiles),
                         sub \in [1..Len(HandlerDirs) ->
                                    {[exists |-> FALSE, files |-> <<>>]} \cup
                                    {[exists |-> TRUE, files |-> g] :
                                        g \in FileListsUpTo(MaxFiles)}]}
                ELSE {<<[exists |-> FALSE, files |-> <<>>]>>}
    /\ l_pc = "start"
    /\ scan_dirs = <<>>
    /\ l_d = 0
    /\ py_files = <<>>
    /\ l_f = 0
    /\ load_result = EmptyLoadResult
    /\ sub_routers = <<>>
    /\ unreadable = {}
    /\ critical = FALSE
    /\ l_return = EmptyDict
    \* no splitter run
    /\ file_exists = FALSE
    /\ initialized = FALSE
    /\ rows = <<>>
    /\ pc = "idle"
    /\ pos = 0
    /\ pending = {}
    /\ cur_g = None
    /\ writers = EmptyDict
    /\ wkeys = <<>>
    /\ sheets = EmptyDict
    /\ row_counts = EmptyDict
    /\ matched_rows = 0
    /\ unmatched_cities = {}
    /\ processed_rows = 0
    /\ books = <<>>
    /\ fin_i = 0
    /\ output_files = EmptyDict
    /\ result = FailureResult("")
    /\ exc = NoException
    /\ resolved = <<>>

\* load_handlers lines 86-90: the base directory is missing
BaseDirMissing ==
    /\ l_pc = "start"
    /\ ~base_exists
    /\ load_result' = [load_result EXCEPT !.errors = Append(@, "missing_dir")]
    /\ l_return' = ToDict(load_result')
    /\ l_pc' = "done"
    /\ UNCHANGED <<base_exists, tree, scan_dirs, l_d, py_files, l_f, sub_routers,
                   unreadable, critical>>
    /\ UNCHANGED splitterVars

\* load_handlers line 86 passes, _load_all_handlers line 109
ListScanDirectories ==
    /\ l_pc = "start"
    /\ base_exists
    /\ scan_dirs' = GetScanDirectories(tree)
    /\ l_d' = 0
    /\ l_pc' = "dir"
    /\ UNCHANGED <<base_exists, tree, py_files, l_f, load_result, sub_routers,
                   unreadable, critical, l_return>>
    /\ UNCHANGED splitterVars

\* load_handlers lines 98-104: something outside the per-directory and
\* per-file handlers raised (Path.exists at lines 86 or 121, _log_summary)
CriticalError ==
    /\ l_pc \in {"start", "summary"}
    /\ critical' = TRUE
    /\ load_result' = [load_result EXCEPT !.errors = Append(@, "critical"),
                                          !.failed = @ + 1]
    /\ l_return' = ToDict(load_result')
    /\ l_pc' = "done"
    /\ UNCHANGED <<base_exists, tree, scan_dirs, l_d, py_files, l_f, sub_routers,
                   unreadable>>
    /\ UNCHANGED splitterVars

\* _load_handlers_from_dir lines 130-137, or the end of the loop of line 111
GlobDirectory ==
    /\ l_pc = "dir"
    /\ IF l_d < Len(scan_dirs)
       THEN /\ py_files' = PublicFiles(tree[scan_dirs[l_d + 1]].files, 1)
            /\ l_f' = 0
            /\ l_pc' = "file"
            /\ l_d' = l_d
       ELSE /\ l_pc' = "summary"
            /\ UNCHANGED <<py_files, l_f, l_d>>
    /\ UNCHANGED <<base_exists, tree, scan_dirs, load_result, sub_routers,
                   unreadable, critical, l_return>>
    /\ UNCHANGED splitterVars

\* _load_handlers_from_dir lines 130, 144-145: glob raises, the directory is left
GlobDirectoryFails ==
    /\ l_pc = "dir"
    /\ l_d < Len(scan_dirs)
    /\ unreadable' = unreadable \cup {scan_dirs[l_d + 1]}
    /\ l_d' = l_d + 1
    /\ UNCHANGED <<base_exists, tree, l_pc, scan_dirs, py_files, l_f, load_result,
                   sub_routers, critical, l_return>>
    /\ UNCHANGED splitterVars

\* variant: a module without router returns without being counted
CountFileForgetsSkipped(r, kind) ==
    CASE kind = "import_fails" -> [r EXCEPT !.failed = @ + 1]
      [] kind = "no_router" -> r
      [] kind = "not_router" ->
            [r EXCEPT !.failed = @ + 1, !.errors = Append(@, "not_router")]
      [] kind = "router" -> [r EXCEPT !.loaded = @ + 1]
      [] kind = "include_raises" ->
            [r EXCEPT !.failed = @ + 1, !.errors = Append(@, "load_error")]

\* _load_single_handler lines 155-184: what the file adds to the LoadResult
CountFile(r, kind) ==
    CASE kind = "import_fails" -> [r EXCEPT !.failed = @ + 1]
      [] kind = "no_router" -> [r EXCEPT !.skipped = @ + 1]
      [] kind = "not_router" ->
            [r EXCEPT !.failed = @ + 1, !.errors = Append(@, "not_router")]
      [] kind = "router" -> [r EXCEPT !.loaded = @ + 1]
      [] kind = "include_raises" ->
            [r EXCEPT !.failed = @ + 1, !.errors = Append(@, "load_error")]

\* dispatcher.include_router(router) is reached and returns (line 174)
RouterIncluded(kind) == kind = "router"

\* the loop of _load_handlers_from_dir lines 140-142 with _load_single_handler
LoadSingleHandler ==
    /\ l_pc = "file"
    /\ IF l_f < Len(py_files)
       THEN LET dir == scan_dirs[l_d + 1]
                file == py_files[l_f + 1]
                kind == tree[dir].files[file]
            IN  /\ load_result' = CountFile([load_result EXCEPT !.scanned = @ + 1], kind)
                /\ sub_routers' = IF RouterIncluded(kind)
                                  THEN Append(sub_routers, <<dir, file>>)
                                  ELSE sub_routers
                /\ l_f' = l_f + 1
                /\ UNCHANGED <<l_d, l_pc>>
       ELSE /\ l_d' = l_d + 1
            /\ l_pc' = "dir"
            /\ UNCHANGED <<load_result, sub_routers, l_f>>
    /\ UNCHANGED <<base_exists, tree, scan_dirs, py_files, unreadable, critical, l_return>>
    /\ UNCHANGED splitterVars

\* load_handlers lines 96, 104
ReturnLoadResult ==
    /\ l_pc = "summary"
    /\ l_return' = ToDict(load_result)
    /\ l_pc' = "done"
    /\ UNCHANGED <<base_exists, tree, scan_dirs, l_d, py_files, l_f, load_result,
                   sub_routers, unreadable, critical>>
    /\ UNCHANGED splitterVars

NextLoader ==
    \/ BaseDirMissing
    \/ ListScanDirectories
    \/ CriticalError
    \/ GlobDirectory
    \/ GlobDirectoryFails
    \/ LoadSingleHandler
    \/ ReturnLoadResult

SpecLoader == LoaderInit /\ [][NextLoader]_vars

\* ------------------------------------------------------------------ C20
\* files of the scanned directories that _load_single_handler is given
Scannable ==
    {<<d, f>> : d \in {scan_dirs[k] : k \in 1..Len(scan_dirs)} \ unreadable,
                f \in 1..MaxFiles + 1} \cap
    {df \in (1..Len(tree)) \X (1..MaxFiles + 1) :
        /\ df[2] <= Len(tree[df[1]].files)
        /\ tree[df[1]].files[df[2]] # "private"}

\* C20: every scanned file is counted in exactly one of loaded, failed and
\* skipped (the critical error adds one failure of its own); a file that
\* fails does not keep the later files from being loaded; the dispatcher
\* holds a router exactly for the files counted as loaded.
C20_LoaderAccounting ==
    /\ [](/\ load_result.loaded + load_result.failed + load_result.skipped
                = load_result.scanned + (IF critical THEN 1 ELSE 0)
          /\ Len(sub_routers) = load_result.loaded
          /\ \A k \in 1..Len(sub_routers) :
                tree[sub_routers[k][1]].files[sub_routers[k][2]] = "router"
          /\ (l_pc = "done" /\ base_exists /\ scan_dirs # <<>>) =>
                /\ l_return.total_files = Cardinality(Scannable)
                /\ l_return.loaded = Len(sub_routers)
                /\ \A df \in Scannable :
                      tree[df[1]].files[df[2]] = "router" =>
                          \E k \in 1..Len(sub_routers) : sub_routers[k] = df)
    /\ [][load_result'.scanned # load_result.scanned =>
            /\ load_result'.scanned = load_result.scanned + 1
            /\ \E c \in {"loaded", "failed", "skipped"} :
                  /\ load_result'[c] = load_result[c] + 1
                  /\ \A o \in {"loaded", "failed", "skipped"} \ {c} :
                        load_result'[o] = load_result[o]
            /\ (Len(sub_routers') = Len(sub_routers) + 1)
                  <=> (load_result'.loaded = load_result.loaded + 1)]_vars

C20_Witness ==
    /\ l_pc = "done"
    /\ ~critical
    /\ l_return.total_files = 4
    /\ l_return.loaded = 2
    /\ l_return.failed = 1
    /\ l_return.skipped = 1
    /\ Len(sub_routers) = 2
    /\ tree[1].files[1] = "import_fails"
    /\ tree[1].files[2] = "router"

====
